---- MODULE Spec2Model ----
(***************************************************************************)
(* A model of three parts of the transpiler:                               *)
(*   - the exact rational engine and the literal parser                    *)
(*     (passes/literalExpressionEvaluator/rationalLiteral.ts, 1-159),      *)
(*   - the storage variable access rewriter (same file, 327-478),          *)
(*   - the variable declaration expression splitter                        *)
(*     (passes/variableDeclarationExpressionSplitter.ts).                  *)
(* Each part has its own specification over its own variables; the         *)
(* variables of the other parts stay at their idle values.                 *)
(***************************************************************************)
EXTENDS Integers, Sequences, FiniteSets

VARIABLES
    inA, inB,       \* raw (numerator, denominator) pairs handed to the constructor
    ratA, ratB,     \* the constructed operands
    ratRes,         \* the current value of the chain a.op(b).op(b)...
    ratOps,         \* the names of the operations applied so far
    lit,            \* the literal text handed to stringToLiteralValue
    parsed,         \* its outcome
    text,           \* toString() of the parsed value
    reparsed,       \* the outcome of stringToLiteralValue(text)
    splitIn,        \* the tree handed to the declaration splitter
    splitAst,       \* the tree as the splitter leaves it
    lastUsedConstantId, \* the splitter's counter of generated names
    splitNextId,    \* the next node id the AST context hands out
    splitStatus,    \* "ready", "done", or the error that aborted the pass
    accessIn,       \* the tree handed to the storage-access pass
    accessAst,      \* the tree as the last run of the pass leaves it
    accessAstOnce,  \* the tree as the first run left it
    accessNextId,   \* the next node id the AST context hands out
    utilFuncs,      \* the registry of generated helpers, by canonical key
    utilFuncsOnce,  \* the registry as the first run left it
    replacedNodes,  \* the number of nodes the last run replaced
    accessRuns,     \* how many times the pass has run on the tree
    accessError,    \* the error that aborted the last run, "" if none
    typeIn,         \* the type node handed to cairoType
    typeOut         \* its outcome

ratVars == <<inA, inB, ratA, ratB, ratRes, ratOps>>
parseVars == <<lit, parsed, text, reparsed>>
splitVars == <<splitIn, splitAst, lastUsedConstantId, splitNextId, splitStatus>>
accessVars == <<accessIn, accessAst, accessAstOnce, accessNextId, utilFuncs, utilFuncsOnce,
                replacedNodes, accessRuns, accessError>>
typeVars == <<typeIn, typeOut>>
vars == <<ratVars, parseVars, splitVars, accessVars, typeVars>>

(***************************************************************************)
(* Bounds of the model.                                                    *)
(***************************************************************************)
MaxNum == 2        \* raw numerators range over -MaxNum..MaxNum
MaxDen == 3        \* raw denominators range over -MaxDen..MaxDen
MaxOps == 2        \* length of a chain of operations
MaxMag == 1000     \* an operation is applied to values up to this magnitude
MaxExpBase == 30   \* exp is applied to bases up to this magnitude
MaxLen == 5        \* length of a literal text
MaxExponent == 4   \* magnitude of the exponent of a scientific literal
MaxSlots == 3      \* assignment slots of a declaration statement
MaxWeight == 4     \* size of a statement tree (slots, statements, annotations)
MaxNodes == 7      \* nodes of an expression handed to the storage-access pass
MaxTypeDepth == 3  \* nesting of arrays, pointers and mappings in a type node

(***************************************************************************)
(* bigint arithmetic: / truncates toward zero, % takes the sign of the     *)
(* dividend, both throw a RangeError on a zero divisor (callers test).     *)
(***************************************************************************)
Abs(x) == IF x < 0 THEN -x ELSE x

BigIntDiv(x, y) ==
    IF (x < 0) = (y < 0) THEN Abs(x) \div Abs(y) ELSE -(Abs(x) \div Abs(y))

BigIntRem(x, y) ==
    IF x < 0 THEN -(Abs(x) % Abs(y)) ELSE x % Abs(y)

RECURSIVE BigIntPow(_, _)
BigIntPow(x, k) == IF k = 0 THEN 1 ELSE x * BigIntPow(x, k - 1)

(***************************************************************************)
(* Outcomes.  A RationalLiteral is a record of kind "rational"; a throw is *)
(* a record whose kind is the error; exp's null is kind "null".            *)
(***************************************************************************)
Outcome(k, n, d) == [kind |-> k, numerator |-> n, denominator |-> d]
None == Outcome("none", 0, 0)
Null == Outcome("null", 0, 0)
Throw(e) == Outcome(e, 0, 0)
IsRational(r) == r.kind = "rational"

\* constructor: Error('Attempted rational division by 0') is the DivisionByZero kind
RationalLiteralWrongSign(numerator, denominator) ==
    IF denominator # 0 THEN Outcome("rational", numerator, denominator)
    ELSE Throw("DivisionByZero")

RationalLiteral(numerator, denominator) ==
    IF denominator > 0 THEN Outcome("rational", numerator, denominator)
    ELSE IF denominator < 0 THEN Outcome("rational", -numerator, -denominator)
    ELSE Throw("DivisionByZero")

equalValueOf(this, other) ==
    this.numerator * other.denominator = other.numerator * this.denominator

greaterThan(this, other) ==
    this.numerator * other.denominator > other.numerator * this.denominator

addUnscaled(this, other) ==
    IF this.denominator = other.denominator
    THEN RationalLiteral(this.numerator + other.numerator, this.denominator)
    ELSE IF BigIntRem(this.denominator, other.denominator) = 0
    THEN RationalLiteral(this.numerator + other.numerator, this.denominator)
    ELSE IF BigIntRem(other.denominator, this.denominator) = 0
    THEN RationalLiteral(
             other.numerator + BigIntDiv(this.numerator * other.denominator, this.denominator),
             other.denominator)
    ELSE RationalLiteral(
             this.numerator * other.denominator + other.numerator * this.denominator,
             this.denominator * other.denominator)

add(this, other) ==
    IF this.denominator = other.denominator
    THEN RationalLiteral(this.numerator + other.numerator, this.denominator)
    ELSE IF BigIntRem(this.denominator, other.denominator) = 0
    THEN RationalLiteral(
             this.numerator + BigIntDiv(other.numerator * this.denominator, other.denominator),
             this.denominator)
    ELSE IF BigIntRem(other.denominator, this.denominator) = 0
    THEN RationalLiteral(
             other.numerator + BigIntDiv(this.numerator * other.denominator, this.denominator),
             other.denominator)
    ELSE RationalLiteral(
             this.numerator * other.denominator + other.numerator * this.denominator,
             this.denominator * other.denominator)

subtract(this, other) ==
    add(this, RationalLiteral(-other.numerator, other.denominator))

multiply(this, other) ==
    RationalLiteral(this.numerator * other.numerator,
                    this.denominator * other.denominator)

divideByDenominatorOnly(this, other) ==
    RationalLiteral(this.numerator * other.denominator,
                    this.denominator * other.denominator)

divideBy(this, other) ==
    RationalLiteral(this.numerator * other.denominator,
                    this.denominator * other.numerator)

\* toInteger: the quotient, when the division is exact; the flag says whether it is
toInteger(this) ==
    IF BigIntRem(this.numerator, this.denominator) = 0
    THEN [isNull |-> FALSE, value |-> BigIntDiv(this.numerator, this.denominator)]
    ELSE [isNull |-> TRUE, value |-> 0]

exp(this, other) ==
    LET op == toInteger(other).value IN
    IF toInteger(other).isNull THEN Null
    ELSE IF op = 0 THEN RationalLiteral(1, 1)
    ELSE IF op > 0
    THEN RationalLiteral(BigIntPow(this.numerator, op), BigIntPow(this.denominator, op))
    ELSE IF this.numerator > 0
    THEN RationalLiteral(BigIntPow(this.denominator, -op), BigIntPow(this.numerator, -op))
    ELSE IF this.numerator < 0
    THEN RationalLiteral(BigIntPow(-this.denominator, -op), BigIntPow(-this.numerator, -op))
    ELSE RationalLiteral(0, 1)

\* bigint % 0n throws RangeError('Division by zero'): the DivisionByZero kind
mod(this, other) ==
    IF other.numerator * this.denominator = 0 THEN Throw("DivisionByZero")
    ELSE RationalLiteral(
             BigIntRem(this.numerator * other.denominator,
                       other.numerator * this.denominator),
             this.denominator * other.denominator)

(***************************************************************************)
(* The AST of the declaration splitter.  Every node is a record of one     *)
(* shape per sort (statement, expression, declaration); a field a kind     *)
(* does not have holds its empty value, and the id 0 is null.              *)
(***************************************************************************)
Expression(kind, id, typeString, elements, components, name, ref) ==
    [kind |-> kind, id |-> id, typeString |-> typeString, elements |-> elements,
     vOriginalComponents |-> components, name |-> name, referencedDeclaration |-> ref]

NoName == <<"", 0>>
UndefinedExpression == Expression("undefined", 0, "", <<>>, <<>>, NoName, 0)
NullExpression == Expression("null", 0, "", <<>>, <<>>, NoName, 0)

VariableDeclaration(id, name, typeString) ==
    [id |-> id, name |-> name, typeString |-> typeString]

Statement(kind, id, assignments, vDeclarations, vInitialValue, vExpression, documentation, raw, children) ==
    [kind |-> kind, id |-> id, assignments |-> assignments,
     vDeclarations |-> vDeclarations, vInitialValue |-> vInitialValue,
     vExpression |-> vExpression, documentation |-> documentation, raw |-> raw,
     children |-> children]

VariableDeclarationStatement(id, assignments, vDeclarations, vInitialValue, documentation, raw) ==
    Statement("VariableDeclarationStatement", id, assignments, vDeclarations,
              vInitialValue, UndefinedExpression, documentation, raw, <<>>)

ExpressionStatement(id, vExpression, documentation, raw) ==
    Statement("ExpressionStatement", id, <<>>, <<>>, UndefinedExpression,
              vExpression, documentation, raw, <<>>)

StatementWithChildren(kind, id, children) ==
    Statement(kind, id, <<>>, <<>>, UndefinedExpression, UndefinedExpression,
              "undefined", "raw", children)

\* the tree of an aborted compilation is dropped
NoTree == StatementWithChildren("none", 0, <<>>)

(***************************************************************************)
(* The trees the splitter is run on.  A shape says what a statement is; a  *)
(* tree is a shape with its node ids filled in, in source order.           *)
(***************************************************************************)
DeclaredTypes == {"uint256"}
ReturnTypes == {"uint8", "uint256"}
ContainerKinds == {"Block", "UncheckedBlock", "ForStatement"}

Shape(kind, init, slots, doc, children) ==
    [kind |-> kind, init |-> init, slots |-> slots, doc |-> doc, children |-> children]

\* a slot: the declared type ("null": an empty slot) and, by the initialiser,
\* the call's return type at the slot or whether the tuple has a component
Slot(decl, rhs) == [decl |-> decl, rhs |-> rhs]

SomeDeclared(sl) == \E i \in 1..Len(sl) : sl[i].decl # "null"

\* (T a, , T b) = (e, f, ): any slot may lack its declaration or its component
TupleSlotLists(n) ==
    {sl \in [1..n -> {Slot(d, c) : d \in DeclaredTypes \cup {"null"},
                                   c \in {"component", "null"}}] : SomeDeclared(sl)}

\* (T a, , T b) = f(): a declared slot's type is, or is not, the returned one
TupleCallSlotLists(n) ==
    {sl \in [1..n -> {Slot(d, r) : d \in DeclaredTypes, r \in ReturnTypes}
                     \cup {Slot("null", "uint256")}] : SomeDeclared(sl)}

AllDeclared(n) == [i \in 1..n |-> Slot("uint256", "none")]

\* the declaration statements of n slots, all without documentation
DeclarationShapes(n) ==
    IF n = 1
    THEN {Shape("VariableDeclarationStatement", "call", AllDeclared(1), FALSE, <<>>)}
    ELSE {Shape("VariableDeclarationStatement", "tuple", sl, FALSE, <<>>) :
            sl \in TupleSlotLists(n)}
         \cup {Shape("VariableDeclarationStatement", "tupleCall", sl, FALSE, <<>>) :
            sl \in TupleCallSlotLists(n)}
         \cup {Shape("VariableDeclarationStatement", init, AllDeclared(n), FALSE, <<>>) :
            init \in {"call", "other", "undefined"}}

\* the statements of weight w, given the statement lists of smaller weights:
\* a slot, an annotation, a statement weigh 1 each; a container is not empty
StatementShapes(w, lists) ==
    (IF w = 1 THEN {Shape("ExpressionStatement", "none", <<>>, FALSE, <<>>)} ELSE {})
    \cup (IF w \in 1..MaxSlots THEN DeclarationShapes(w) ELSE {})
    \cup (IF (w - 1) \in 1..MaxSlots
          THEN {[d EXCEPT !.doc = TRUE] : d \in DeclarationShapes(w - 1)} ELSE {})
    \cup (IF w >= 2
          THEN {Shape(k, "none", <<>>, FALSE, l) : k \in ContainerKinds, l \in lists[w - 1]}
          ELSE {})

\* the statements and the statement lists of each weight up to w
RECURSIVE ShapeTable(_)
ShapeTable(w) ==
    IF w = 0 THEN [statements |-> [v \in {0} |-> {}], lists |-> [v \in {0} |-> {<<>>}]]
    ELSE LET prev == ShapeTable(w - 1)
             here == StatementShapes(w, prev.lists)
             stmts == [v \in 0..w |-> IF v = w THEN here ELSE prev.statements[v]]
             lists == UNION {{<<h>> \o t : h \in stmts[v], t \in prev.lists[w - v]} : v \in 1..w}
         IN  [statements |-> stmts,
              lists |-> [v \in 0..w |-> IF v = w THEN lists ELSE prev.lists[v]]]

LowerShapes == ShapeTable(MaxWeight - 1)

StatementsOfWeight(w) ==
    IF w < MaxWeight THEN LowerShapes.statements[w]
    ELSE StatementShapes(MaxWeight, LowerShapes.lists)

\* the root is the body of a function: a Block of a first statement and the rest
RootShape(first, rest) == Shape("Block", "none", <<>>, FALSE, <<first>> \o rest)

\* the number of node ids a shape takes
RECURSIVE Size(_), ListSize(_)
Size(sh) ==
    IF sh.kind = "VariableDeclarationStatement" THEN 2 * Len(sh.slots) + 2
    ELSE IF sh.kind = "ExpressionStatement" THEN 2
    ELSE 1 + ListSize(sh.children)

ListSize(l) == IF l = <<>> THEN 0 ELSE Size(Head(l)) + ListSize(Tail(l))

SelectIndices(n, Keep(_)) ==
    LET RECURSIVE from(_)
        from(i) == IF i > n THEN <<>>
                   ELSE (IF Keep(i) THEN <<i>> ELSE <<>>) \o from(i + 1)
    IN  from(1)

\* the initialiser of a declaration statement whose id is b
InitialValue(sh, b) ==
    LET n == Len(sh.slots) IN
    IF sh.init = "tuple"
    THEN Expression("TupleExpression", b + n + 1, "tuple", <<>>,
             [i \in 1..n |-> IF sh.slots[i].rhs = "component"
                             THEN Expression("Literal", b + n + 1 + i, "uint256", <<>>, <<>>, NoName, 0)
                             ELSE NullExpression],
             NoName, 0)
    ELSE IF sh.init = "tupleCall"
    THEN Expression("FunctionCall", b + n + 1, "tuple",
             [i \in 1..n |-> sh.slots[i].rhs], <<>>, NoName, 0)
    ELSE IF sh.init = "call"
    THEN Expression("FunctionCall", b + n + 1, "uint256", <<>>, <<>>, NoName, 0)
    ELSE IF sh.init = "other"
    THEN Expression("Conditional", b + n + 1, "tuple", <<>>, <<>>, NoName, 0)
    ELSE UndefinedExpression

RECURSIVE Tree(_, _), TreeList(_, _)
\* the statement of shape sh whose id is b
Tree(sh, b) ==
    IF sh.kind = "VariableDeclarationStatement"
    THEN LET n == Len(sh.slots)
             declared == SelectIndices(n, LAMBDA i : sh.slots[i].decl # "null")
         IN  VariableDeclarationStatement(
                 b,
                 [i \in 1..n |-> IF sh.slots[i].decl # "null" THEN b + i ELSE 0],
                 [j \in 1..Len(declared) |->
                     VariableDeclaration(b + declared[j], <<"v", b + declared[j]>>,
                                         sh.slots[declared[j]].decl)],
                 InitialValue(sh, b),
                 IF sh.doc THEN "documentation" ELSE "undefined",
                 "raw")
    ELSE IF sh.kind = "ExpressionStatement"
    THEN ExpressionStatement(b,
             Expression("FunctionCall", b + 1, "uint256", <<>>, <<>>, NoName, 0),
             "undefined", "raw")
    ELSE StatementWithChildren(sh.kind, b, TreeList(sh.children, b + 1))

TreeList(l, b) ==
    IF l = <<>> THEN <<>>
    ELSE <<Tree(Head(l), b)>> \o TreeList(Tail(l), b + Size(Head(l)))

(***************************************************************************)
(* The declaration splitter.  A visit takes a node and the context (the    *)
(* AST's next node id and the pass's name counter) and gives the node as   *)
(* rewritten, the context after it, and the error thrown, if any.          *)
(***************************************************************************)
Context(nextId, constantId) == [nextId |-> nextId, lastUsedConstantId |-> constantId]

\* ast.reserveId(): a node id never handed out before
reserveId(ctx) == [id |-> ctx.nextId, ctx |-> [ctx EXCEPT !.nextId = @ + 1]]

\* getNodeType(expression): the type its type string spells
getNodeType(expression) ==
    [kind |-> IF expression.typeString = "tuple" THEN "TupleType" ELSE "IntType",
     elements |-> expression.elements]

generateNewConstantNameReused(ctx) ==
    [name |-> <<"__warp_td_", ctx.lastUsedConstantId>>, ctx |-> ctx]

generateNewConstantName(ctx) ==
    [name |-> <<"__warp_td_", ctx.lastUsedConstantId>>,
     ctx |-> [ctx EXCEPT !.lastUsedConstantId = @ + 1]]

\* vDeclarations.find((decl) => decl.id === id): empty when there is none
find(vDeclarations, id) == SelectSeq(vDeclarations, LAMBDA decl : decl.id = id)

\* the slots of (T a, T b) = f() from index on; acc holds newAssignedIds,
\* node.vDeclarations, newDeclarationStatements, the context and the error
RECURSIVE splitFunctionCallSlots(_, _, _)
splitFunctionCallSlots(node, index, acc) ==
    IF index > Len(node.assignments) \/ acc.error # "" THEN acc
    ELSE
    LET id == node.assignments[index]
        returnType == getNodeType(node.vInitialValue)
        oldDeclaration == find(acc.vDeclarations, id)
        declarationId == reserveId(acc.ctx)
        newName == generateNewConstantName(declarationId.ctx)
        typeNameId == reserveId(newName.ctx)
        statementId == reserveId(typeNameId.ctx)
        identifierId == reserveId(statementId.ctx)
        newDeclaration ==
            VariableDeclaration(declarationId.id, newName.name, returnType.elements[index])
        newDeclarationStatement ==
            VariableDeclarationStatement(
                statementId.id, <<oldDeclaration[1].id>>, <<oldDeclaration[1]>>,
                Expression("Identifier", identifierId.id, newDeclaration.typeString,
                           <<>>, <<>>, newDeclaration.name, newDeclaration.id),
                "undefined", "undefined")
    IN  IF id = 0
        THEN splitFunctionCallSlots(node, index + 1,
                 [acc EXCEPT !.assignments = Append(@, 0)])
        ELSE IF oldDeclaration = <<>>
        THEN [acc EXCEPT !.error = "AssertionError"]
        ELSE IF index > Len(returnType.elements)
        THEN [acc EXCEPT !.error = "TypeError"]
        ELSE IF oldDeclaration[1].typeString = returnType.elements[index]
        THEN splitFunctionCallSlots(node, index + 1,
                 [acc EXCEPT !.assignments = Append(@, id)])
        ELSE splitFunctionCallSlots(node, index + 1,
                 [acc EXCEPT !.assignments = Append(@, newDeclaration.id),
                             !.vDeclarations = Append(@, newDeclaration),
                             !.statements = Append(@, newDeclarationStatement),
                             !.ctx = identifierId.ctx])

\* the slots of (T a, T b) = (e, f) from index on; acc holds the statements
\* emitted so far, the context and the error
RECURSIVE splitTupleExpressionSlots(_, _, _)
splitTupleExpressionSlots(node, index, acc) ==
    IF index > Len(node.assignments) \/ acc.error # "" THEN acc
    ELSE
    LET declId == node.assignments[index]
        components == node.vInitialValue.vOriginalComponents
        exprToAssign == IF index <= Len(components) THEN components[index]
                        ELSE UndefinedExpression
        decl == find(node.vDeclarations, declId)
        newId == reserveId(acc.ctx)
        documentation == IF index = 1 THEN node.documentation ELSE "undefined"
        raw == IF index = 1 THEN node.raw ELSE "undefined"
    IN  IF declId = 0
        THEN IF exprToAssign.kind = "null"
             THEN splitTupleExpressionSlots(node, index + 1, acc)
             ELSE splitTupleExpressionSlots(node, index + 1,
                      [acc EXCEPT !.statements =
                                     Append(@, ExpressionStatement(newId.id, exprToAssign,
                                                                   documentation, raw)),
                                  !.ctx = newId.ctx])
        ELSE IF decl = <<>>
        THEN [acc EXCEPT !.error = "AssertionError"]
        ELSE splitTupleExpressionSlots(node, index + 1,
                 [acc EXCEPT !.statements =
                                Append(@, VariableDeclarationStatement(
                                              newId.id, <<declId>>, <<decl[1]>>,
                                              IF exprToAssign.kind = "null"
                                              THEN UndefinedExpression ELSE exprToAssign,
                                              documentation, raw)),
                             !.ctx = newId.ctx])

\* splitDeclaration: the statements that take the place of node
splitDeclaration(node, ctx) ==
    LET initialValue == node.vInitialValue
        Result(statements, c, error) ==
            [statements |-> statements, ctx |-> c, error |-> error]
        call == splitFunctionCallSlots(node, 1,
                    [assignments |-> <<>>, vDeclarations |-> node.vDeclarations,
                     statements |-> <<>>, ctx |-> ctx, error |-> ""])
        tuple == splitTupleExpressionSlots(node, 1,
                    [statements |-> <<>>, ctx |-> ctx, error |-> ""])
    IN  IF Len(node.vDeclarations) = 1 THEN Result(<<node>>, ctx, "")
        ELSE IF initialValue.kind = "undefined" THEN Result(<<>>, ctx, "AssertionError")
        ELSE IF initialValue.kind = "FunctionCall"
        THEN IF getNodeType(initialValue).kind = "TupleType"
             THEN Result(
                      <<[node EXCEPT
                            !.assignments = call.assignments,
                            !.vDeclarations =
                                SelectSeq(call.vDeclarations,
                                          LAMBDA decl :
                                              \E i \in 1..Len(call.assignments) :
                                                  call.assignments[i] = decl.id)]>>
                      \o call.statements,
                      call.ctx, call.error)
             ELSE Result(<<node>>, ctx, "")
        ELSE IF initialValue.kind = "TupleExpression"
        THEN Result(tuple.statements, tuple.ctx, tuple.error)
        ELSE Result(<<>>, ctx, "TranspileFailedError")

\* the index in children of the node whose id is given
IndexOfNode(children, id) == CHOOSE i \in 1..Len(children) : children[i].id = id

\* ast.replaceNode(old, new) within the children of old's parent; a node
\* changed in place takes its own place
replaceNode(children, oldId, new) ==
    [children EXCEPT ![IndexOfNode(children, oldId)] = new]

\* node.insertAfter(new, reference)
insertAfter(children, new, referenceId) ==
    LET i == IndexOfNode(children, referenceId)
    IN  SubSeq(children, 1, i) \o <<new>> \o SubSeq(children, i + 1, Len(children))

\* children.map(...).filter(notNull): one [oldStatement, splitDeclaration] pair
\* for each declaration statement among the children, from index on
RECURSIVE splitChildren(_, _, _)
splitChildren(children, index, acc) ==
    IF index > Len(children) \/ acc.error # "" THEN acc
    ELSE IF children[index].kind # "VariableDeclarationStatement"
    THEN splitChildren(children, index + 1, acc)
    ELSE LET split == splitDeclaration(children[index], acc.ctx)
         IN  splitChildren(children, index + 1,
                 [replacements |-> Append(acc.replacements,
                                          [oldStatement |-> children[index],
                                           splitDeclaration |-> split.statements]),
                  ctx |-> split.ctx, error |-> split.error])

RECURSIVE insertRestAfterFirst(_, _, _)
insertRestAfterFirst(children, split, index) ==
    IF index > Len(split) THEN children
    ELSE insertRestAfterFirst(insertAfter(children, split[index], split[1].id),
                              split, index + 1)

\* splitDeclaration.slice(1).forEach(...), from index on
RECURSIVE insertRest(_, _, _)
insertRest(children, split, index) ==
    IF index > Len(split) THEN children
    ELSE insertRest(insertAfter(children, split[index], split[index - 1].id),
                    split, index + 1)

\* a statement that splitDeclaration changed in place, seen in the children
inPlace(children, oldStatement, split) ==
    IF split # <<>> /\ split[1].id = oldStatement.id
    THEN [children EXCEPT ![IndexOfNode(children, oldStatement.id)] = split[1]]
    ELSE children

\* replacements.forEach(...), from index on
RECURSIVE applyReplacements(_, _, _)
applyReplacements(children, replacements, index) ==
    IF index > Len(replacements) THEN children
    ELSE LET oldStatement == replacements[index].oldStatement
             split == replacements[index].splitDeclaration
             current == inPlace(children, oldStatement, split)
         IN  applyReplacements(
                 IF Len(split) = 1 /\ split[1].id = oldStatement.id THEN current
                 ELSE IF Len(split) = 0 THEN current
                 ELSE insertRest(IF split[1].id # oldStatement.id
                                 THEN replaceNode(current, oldStatement.id, split[1])
                                 ELSE current,
                                 split, 2),
                 replacements, index + 1)

visitStatementList(node, ctx) ==
    LET mapped == splitChildren(node.children, 1,
                      [replacements |-> <<>>, ctx |-> ctx, error |-> ""])
    IN  [node |-> IF mapped.error # "" THEN node
                  ELSE [node EXCEPT !.children =
                            applyReplacements(node.children, mapped.replacements, 1)],
         ctx |-> mapped.ctx, error |-> mapped.error]

RECURSIVE dispatchVisit(_, _), commonVisit(_, _), visitChildren(_, _, _),
          visitBlock(_, _), visitUncheckedBlock(_, _)

\* the children of a node visited in order, from index on
visitChildren(node, index, acc) ==
    IF index > Len(node.children) \/ acc.error # "" THEN acc
    ELSE LET visited == dispatchVisit(node.children[index], acc.ctx)
         IN  visitChildren(node, index + 1,
                 [node |-> [acc.node EXCEPT !.children[index] = visited.node],
                  ctx |-> visited.ctx, error |-> visited.error])

\* ASTMapper.commonVisit: recurse into every child
commonVisit(node, ctx) ==
    visitChildren(node, 1, [node |-> node, ctx |-> ctx, error |-> ""])

visitBlock(node, ctx) ==
    LET visited == commonVisit(node, ctx)
    IN  IF visited.error # "" THEN visited
        ELSE visitStatementList(visited.node, visited.ctx)

visitUncheckedBlock(node, ctx) ==
    LET visited == commonVisit(node, ctx)
    IN  IF visited.error # "" THEN visited
        ELSE visitStatementList(visited.node, visited.ctx)

\* ASTMapper.dispatchVisit: the handler of the node's kind
dispatchVisit(node, ctx) ==
    IF node.kind = "Block" THEN visitBlock(node, ctx)
    ELSE IF node.kind = "UncheckedBlock" THEN visitUncheckedBlock(node, ctx)
    ELSE commonVisit(node, ctx)

(***************************************************************************)
(* The type translator.  A type node carries its variant, the bit width of *)
(* an Int, the name of a Builtin, BuiltinStruct or UserDefined type, and   *)
(* the nodes it is built from (elementT; to; keyType and valueType).  A    *)
(* string is the sequence of its pieces.                                   *)
(***************************************************************************)
TypeNode(kind, nBits, name, parts) ==
    [kind |-> kind, nBits |-> nBits, name |-> name, parts |-> parts]

NoType == TypeNode("none", 0, <<>>, <<>>)

Returned(value) == [kind |-> "string", value |-> value]

Thrown == [kind |-> "Error", value |-> <<>>]

NotTranslated == [kind |-> "none", value |-> <<>>]

\* the width above which an integer does not fit a field element
FeltBits == 251

\* canonicalMangler(name): punctuation rewritten into underscores
canonicalMangler(name) ==
    [i \in 1..Len(name) |-> IF name[i] \in {".", " "} THEN "_" ELSE name[i]]

\* `${tp.keyType}`: the key type as the template literal prints it
KeyText(keyType) == <<"key", keyType.kind>>

RECURSIVE cairoType(_)

cairoTypePointerKept(tp) ==
    LET inner == cairoType(tp.parts[Len(tp.parts)])
    IN  IF tp.kind = "IntType"
        THEN Returned(IF tp.nBits > FeltBits THEN <<"Uint256">> ELSE <<"felt">>)
        ELSE IF tp.kind \in {"ArrayType", "PointerType"}
        THEN IF inner.kind = "Error" THEN Thrown ELSE Returned(Append(inner.value, "*"))
        ELSE IF tp.kind \in {"BoolType", "StringType", "AddressType"} THEN Returned(<<"felt">>)
        ELSE IF tp.kind \in {"BytesType", "FunctionType"} THEN Returned(<<"felt", "*">>)
        ELSE IF tp.kind \in {"BuiltinType", "BuiltinStructType", "UserDefinedType"}
        THEN Returned(canonicalMangler(tp.name))
        ELSE IF tp.kind = "MappingType"
        THEN IF inner.kind = "Error" THEN Thrown
             ELSE Returned(KeyText(tp.parts[1]) \o <<" => ">> \o inner.value)
        ELSE Thrown

cairoType(tp) ==
    LET elementT == cairoType(tp.parts[1])
        valueType == cairoType(tp.parts[2])
        to == cairoType(tp.parts[1])
    IN  IF tp.kind = "IntType"
        THEN Returned(IF tp.nBits > FeltBits THEN <<"Uint256">> ELSE <<"felt">>)
        ELSE IF tp.kind = "ArrayType"
        THEN IF elementT.kind = "Error" THEN Thrown
             ELSE Returned(Append(elementT.value, "*"))
        ELSE IF tp.kind = "BoolType" THEN Returned(<<"felt">>)
        ELSE IF tp.kind = "BytesType" THEN Returned(<<"felt", "*">>)
        ELSE IF tp.kind = "StringType" THEN Returned(<<"felt">>)
        ELSE IF tp.kind = "AddressType" THEN Returned(<<"felt">>)
        ELSE IF tp.kind \in {"BuiltinType", "BuiltinStructType"}
        THEN Returned(canonicalMangler(tp.name))
        ELSE IF tp.kind = "MappingType"
        THEN IF valueType.kind = "Error" THEN Thrown
             ELSE Returned(KeyText(tp.parts[1]) \o <<" => ">> \o valueType.value)
        ELSE IF tp.kind = "UserDefinedType" THEN Returned(canonicalMangler(tp.name))
        ELSE IF tp.kind = "FunctionType" THEN Returned(<<"felt", "*">>)
        ELSE IF tp.kind = "PointerType" THEN to
        ELSE Thrown

\* the widths of the integer types of the input
IntBits == {8, 248, 256}

TypeNames == {<<"msg">>, <<"A", ".", "S">>}

ElementaryTypes ==
    {TypeNode("IntType", nBits, <<>>, <<>>) : nBits \in IntBits}
    \cup {TypeNode(kind, 0, <<>>, <<>>) : kind \in {"BoolType", "AddressType"}}

\* the type nodes without parts: those the translator knows and two it does
\* not (a tuple type, a fixed-size bytes type)
SimpleTypes ==
    ElementaryTypes
    \cup {TypeNode(kind, 0, <<>>, <<>>) :
            kind \in {"StringType", "BytesType", "FunctionType", "TupleType", "FixedBytesType"}}
    \cup {TypeNode(kind, 0, name, <<>>) :
            kind \in {"BuiltinType", "BuiltinStructType", "UserDefinedType"}, name \in TypeNames}

\* the type nodes built from t in one step
TypesOver(t) ==
    {TypeNode(kind, 0, <<>>, <<t>>) : kind \in {"ArrayType", "PointerType"}}
    \cup {TypeNode("MappingType", 0, <<>>, <<k, t>>) : k \in ElementaryTypes}

RECURSIVE TypesOfDepth(_)
TypesOfDepth(d) ==
    IF d = 0 THEN SimpleTypes
    ELSE UNION {TypesOver(t) : t \in TypesOfDepth(d - 1)}

TypeIdle ==
    /\ typeIn = NoType
    /\ typeOut = NotTranslated

(***************************************************************************)
(* The expression trees of the storage-access pass.  A node carries its    *)
(* kind, id, type string, name or value, the name of the declaration it    *)
(* references, and its children in visiting order:                         *)
(*   Assignment    <<vLeftHandSide, vRightHandSide>>                        *)
(*   IndexAccess   <<vBaseExpression>> or <<vBaseExpression, vIndexExpression>> *)
(*   FunctionCall  <<vExpression>> \o vArguments                            *)
(***************************************************************************)
Node(kind, id, typeString, name, ref, children) ==
    [kind |-> kind, id |-> id, typeString |-> typeString, name |-> name,
     referencedDeclaration |-> ref, children |-> children]

NoNode == Node("none", 0, "", "", "", <<>>)

Literal(id, value) == Node("Literal", id, "int_const", value, "", <<>>)

Declaration(stateVariable, vType, typeString, vValue, allocation) ==
    [stateVariable |-> stateVariable, vType |-> vType, typeString |-> typeString,
     vValue |-> vValue, allocation |-> allocation]

\* the declarations of the contract: x, a and m are state variables with an
\* allocated slot, u is a state variable the allocator has not seen, m and p
\* are mappings (p a local storage pointer), l is a local variable; the
\* initialiser of m is the canonical base expression the allocator gave it
declarations ==
    [x |-> Declaration(TRUE, "ElementaryTypeName", "uint256", NoNode, "0"),
     m |-> Declaration(TRUE, "Mapping", "mapping pointer", Literal(0, "1"), "1"),
     a |-> Declaration(TRUE, "ArrayTypeName", "array pointer", NoNode, "2"),
     u |-> Declaration(TRUE, "ElementaryTypeName", "uint256", NoNode, "undefined"),
     l |-> Declaration(FALSE, "ElementaryTypeName", "uint256", NoNode, "undefined"),
     p |-> Declaration(FALSE, "Mapping", "mapping pointer", NoNode, "undefined")]

Identifier(id, ref) == Node("Identifier", id, declarations[ref].typeString, ref, ref, <<>>)

IndexAccess(id, typeString, access) == Node("IndexAccess", id, typeString, "", "", access)

Assignment(id, lhs, rhs) == Node("Assignment", id, lhs.typeString, "", "", <<lhs, rhs>>)

BinaryOperation(id, left, right) ==
    Node("BinaryOperation", id, "uint256", "", "", <<left, right>>)

IsValue(expression) == expression.typeString \in {"uint256", "int_const"}

Leaves ==
    {Literal(0, "1")} \cup {Identifier(0, ref) : ref \in DOMAIN declarations}

\* the input expressions whose only child is base
Unary(base) ==
    IF base.typeString \in {"mapping pointer", "array pointer"}
    THEN {IndexAccess(0, "uint256", <<base>>)}
    ELSE {}

\* the input expressions whose children are left and right
Binary(left, right) ==
    (IF left.typeString \in {"mapping pointer", "array pointer"} /\ IsValue(right)
     THEN {IndexAccess(0, "uint256", <<left, right>>)}
     ELSE {})
    \cup (IF left.typeString = "mapping pointer" /\ IsValue(right)
          THEN {IndexAccess(0, "mapping pointer", <<left, right>>)}
          ELSE {})
    \cup (IF \/ /\ left.kind \in {"Identifier", "IndexAccess"}
                /\ IsValue(left)
                /\ IsValue(right)
             \/ /\ left.kind = "Identifier"
                /\ left.name = "p"
                /\ right.typeString = "mapping pointer"
          THEN {Assignment(0, left, right)}
          ELSE {})
    \cup (IF IsValue(left) /\ IsValue(right)
          THEN {BinaryOperation(0, left, right)}
          ELSE {})

\* input expressions of n nodes, t[k] being those of k < n nodes
ExpressionsOfSize(n, t) ==
    IF n = 1 THEN Leaves
    ELSE UNION {Unary(base) : base \in t[n - 1]}
         \cup UNION {UNION {Binary(left, right) : left \in t[k], right \in t[n - 1 - k]}
                     : k \in 1..(n - 2)}

RECURSIVE ExpressionTable(_)
ExpressionTable(n) ==
    IF n = 0 THEN <<>>
    ELSE LET t == ExpressionTable(n - 1)
         IN  Append(t, ExpressionsOfSize(n, t))

LowerExpressions == ExpressionTable(MaxNodes - 1)

RECURSIVE NodeCount(_), NodeCounts(_)
NodeCount(node) == 1 + NodeCounts(node.children)

NodeCounts(children) ==
    IF children = <<>> THEN 0
    ELSE NodeCount(Head(children)) + NodeCounts(Tail(children))

\* the tree with its nodes numbered from b on, parents before children
RECURSIVE Numbered(_, _), NumberedList(_, _)
Numbered(node, b) ==
    [node EXCEPT !.id = b, !.children = NumberedList(node.children, b + 1)]

NumberedList(children, b) ==
    IF children = <<>> THEN <<>>
    ELSE <<Numbered(Head(children), b)>>
         \o NumberedList(Tail(children), b + NodeCount(Head(children)))

\* the statement the expression stands in: the root always has a parent
Root(expression) == Node("ExpressionStatement", 0, "", "", "", <<expression>>)

(***************************************************************************)
(* The storage-access pass.  A visit takes a node and the context (the     *)
(* AST's next node id, the helper registry, the count of replaced nodes)   *)
(* and gives the node that stands in its place afterwards, the context     *)
(* after it, and the error thrown, if any.                                 *)
(***************************************************************************)
AccessContext(nextId, helpers, replaced) ==
    [nextId |-> nextId, helpers |-> helpers, replaced |-> replaced]

Visited(node, ctx, error) == [node |-> node, ctx |-> ctx, error |-> error]

\* ast.replaceNode(old, new): new stands where old stood
Replaced(new, ctx) == Visited(new, [ctx EXCEPT !.replaced = @ + 1], "")

\* decl instanceof VariableDeclaration && decl.stateVariable
IsStateVariable(ref) == ref \in DOMAIN declarations /\ declarations[ref].stateVariable

\* cloneTypeName(decl.vType, ast): a new type-name node
cloneTypeName(vType, ctx) == [typeName |-> vType, ctx |-> reserveId(ctx).ctx]

\* cloneExpression(expression, ast): the same expression under new ids
cloneExpression(expression, ctx) ==
    [node |-> [expression EXCEPT !.id = reserveId(ctx).id], ctx |-> reserveId(ctx).ctx]

\* the call expression a helper generator returns: a FunctionCall of the
\* helper with the arguments given, the helper registered under its key
HelperCall(operation, typeName, arguments, ctx) ==
    LET callId == reserveId(ctx)
        calleeId == reserveId(callId.ctx)
    IN  [node |-> Node("FunctionCall", callId.id, "", operation, "",
                       <<Node("Identifier", calleeId.id, "function", operation, operation,
                              <<>>)>> \o arguments),
         ctx |-> [calleeId.ctx EXCEPT !.helpers = @ \cup {<<operation, typeName>>}]]

storageRead(slotLiteral, typeName, ctx) ==
    HelperCall("storageRead", typeName, <<slotLiteral>>, ctx)

storageWrite(decl, slotLiteral, value, ctx) ==
    HelperCall("storageWrite", decl.vType, <<slotLiteral, value>>, ctx)

readMapping(base, index, typeName, ctx) ==
    HelperCall("readMapping", typeName, <<base, index>>, ctx)

writeMapping(base, index, typeName, value, ctx) ==
    HelperCall("writeMapping", typeName, <<base, index, value>>, ctx)

RECURSIVE dispatchVisitAccess(_, _), commonVisitAccess(_, _), visitChildrenAccess(_, _, _),
          visitAssignment(_, _), visitIdentifier(_, _), visitIndexAccess(_, _)

\* the children of a node visited in order, from index on
visitChildrenAccess(node, index, acc) ==
    IF index > Len(node.children) \/ acc.error # "" THEN acc
    ELSE LET visited == dispatchVisitAccess(node.children[index], acc.ctx)
         IN  visitChildrenAccess(node, index + 1,
                 Visited([acc.node EXCEPT !.children[index] = visited.node],
                         visited.ctx, visited.error))

\* ASTMapper.commonVisit of this pass: recurse into every child
commonVisitAccess(node, ctx) == visitChildrenAccess(node, 1, Visited(node, ctx, ""))

visitAssignmentLeftOnly(node, ctx) ==
    LET vLeftHandSide == node.children[1]
        vRightHandSide == node.children[2]
        decl == declarations[vLeftHandSide.referencedDeclaration]
        literalId == reserveId(ctx)
        write == storageWrite(decl, Literal(literalId.id, decl.allocation), vRightHandSide,
                              literalId.ctx)
        replacementFunc ==
            writeMapping(vLeftHandSide.children[1], vLeftHandSide.children[2], "Mapping",
                         vRightHandSide, reserveId(ctx).ctx)
    IN  IF vLeftHandSide.kind = "Identifier"
        THEN IF ~IsStateVariable(vLeftHandSide.referencedDeclaration)
             THEN commonVisitAccess(node, ctx)
             ELSE IF decl.allocation = "undefined"
             THEN Visited(node, ctx, "AssertionError")
             ELSE Replaced(write.node, write.ctx)
        ELSE IF vLeftHandSide.kind = "IndexAccess"
        THEN IF vLeftHandSide.children[1].typeString = "mapping pointer"
             THEN IF Len(vLeftHandSide.children) < 2
                  THEN Visited(node, ctx, "AssertionError")
                  ELSE dispatchVisitAccess(
                           replacementFunc.node,
                           Replaced(replacementFunc.node, replacementFunc.ctx).ctx)
             ELSE Visited(node, ctx, "NotSupportedYetError")
        ELSE commonVisitAccess(node, ctx)

visitAssignment(node, ctx) ==
    LET vLeftHandSide == node.children[1]
        vRightHandSide == node.children[2]
        decl == declarations[vLeftHandSide.referencedDeclaration]
        literalId == reserveId(ctx)
        write == storageWrite(decl, Literal(literalId.id, decl.allocation), vRightHandSide,
                              literalId.ctx)
        right == dispatchVisitAccess(vRightHandSide, Replaced(write.node, write.ctx).ctx)
        lhsType == vLeftHandSide.children[1].typeString
        mappingTypeName == reserveId(ctx)
        replacementFunc ==
            writeMapping(vLeftHandSide.children[1], vLeftHandSide.children[2], "Mapping",
                         vRightHandSide, mappingTypeName.ctx)
    IN  IF vLeftHandSide.kind = "Identifier"
        THEN IF ~IsStateVariable(vLeftHandSide.referencedDeclaration)
             THEN commonVisitAccess(node, ctx)
             ELSE IF decl.allocation = "undefined"
             THEN Visited(node, ctx, "AssertionError")
             ELSE Visited([write.node EXCEPT !.children[3] = right.node], right.ctx, right.error)
        ELSE IF vLeftHandSide.kind = "IndexAccess"
        THEN IF lhsType = "mapping pointer"
             THEN IF Len(vLeftHandSide.children) < 2
                  THEN Visited(node, ctx, "AssertionError")
                  ELSE dispatchVisitAccess(
                           replacementFunc.node,
                           Replaced(replacementFunc.node, replacementFunc.ctx).ctx)
             ELSE Visited(node, ctx, "NotSupportedYetError")
        ELSE commonVisitAccess(node, ctx)

visitIdentifier(node, ctx) ==
    LET decl == declarations[node.referencedDeclaration]
        typeName == cloneTypeName(decl.vType, ctx)
        clone == cloneExpression(decl.vValue, typeName.ctx)
        literalId == reserveId(typeName.ctx)
        read == storageRead(Literal(literalId.id, decl.allocation), typeName.typeName,
                            literalId.ctx)
    IN  IF ~IsStateVariable(node.referencedDeclaration) THEN Visited(node, ctx, "")
        ELSE IF typeName.typeName = "Mapping"
        THEN IF decl.vValue = NoNode
             THEN Visited(node, typeName.ctx, "AssertionError")
             ELSE Replaced(clone.node, clone.ctx)
        ELSE IF decl.allocation = "undefined"
        THEN Visited(node, typeName.ctx, "AssertionError")
        ELSE Replaced(read.node, read.ctx)

visitIndexAccessNoRecursion(node, ctx) ==
    LET base == node.children[1]
        decl == declarations[base.referencedDeclaration]
        type == cloneTypeName(decl.vType, ctx)
        replacementFunc == readMapping(base, node.children[2], type.typeName, type.ctx)
    IN  IF Len(node.children) < 2 THEN Visited(node, ctx, "WillNotSupportError")
        ELSE IF base.typeString = "mapping pointer"
        THEN IF base.kind # "Identifier" \/ base.referencedDeclaration \notin DOMAIN declarations
             THEN Visited(node, ctx, "AssertionError")
             ELSE IF type.typeName # "Mapping"
             THEN Visited(node, type.ctx, "AssertionError")
             ELSE Replaced(replacementFunc.node, replacementFunc.ctx)
        ELSE Visited(node, ctx, "NotSupportedYetError")

visitIndexAccess(node, ctx) ==
    LET base == node.children[1]
        decl == declarations[base.referencedDeclaration]
        type == cloneTypeName(decl.vType, ctx)
        replacementFunc == readMapping(base, node.children[2], type.typeName, type.ctx)
    IN  IF Len(node.children) < 2 THEN Visited(node, ctx, "WillNotSupportError")
        ELSE IF base.typeString = "mapping pointer"
        THEN IF base.kind # "Identifier" \/ base.referencedDeclaration \notin DOMAIN declarations
             THEN Visited(node, ctx, "AssertionError")
             ELSE IF type.typeName # "Mapping"
             THEN Visited(node, type.ctx, "AssertionError")
             ELSE commonVisitAccess(
                      replacementFunc.node,
                      Replaced(replacementFunc.node, replacementFunc.ctx).ctx)
        ELSE Visited(node, ctx, "NotSupportedYetError")

\* ASTMapper.dispatchVisit of this pass: the handler of the node's kind
dispatchVisitAccess(node, ctx) ==
    IF node.kind = "Assignment" THEN visitAssignment(node, ctx)
    ELSE IF node.kind = "Identifier" THEN visitIdentifier(node, ctx)
    ELSE IF node.kind = "IndexAccess" THEN visitIndexAccess(node, ctx)
    ELSE commonVisitAccess(node, ctx)

AccessIdle ==
    /\ accessIn = NoNode
    /\ accessAst = NoNode
    /\ accessAstOnce = NoNode
    /\ accessNextId = 0
    /\ utilFuncs = {}
    /\ utilFuncsOnce = {}
    /\ replacedNodes = 0
    /\ accessRuns = 0
    /\ accessError = ""

SplitIdle ==
    /\ splitIn = NoTree
    /\ splitAst = NoTree
    /\ lastUsedConstantId = 0
    /\ splitNextId = 0
    /\ splitStatus = "idle"

(***************************************************************************)
(* The rational engine as a state machine: two operands are constructed    *)
(* from raw pairs, then operations are chained on the current value with   *)
(* operand b.                                                              *)
(***************************************************************************)
RawNums == (-MaxNum)..MaxNum
RawDens == (-MaxDen)..MaxDen

ParseIdle ==
    /\ lit = <<>>
    /\ parsed = None
    /\ text = <<>>
    /\ reparsed = None

RatIdle ==
    /\ inA = <<0, 1>>
    /\ inB = <<0, 1>>
    /\ ratA = None
    /\ ratB = None
    /\ ratRes = None
    /\ ratOps = <<>>

InitRat ==
    /\ inA \in RawNums \X RawDens
    /\ inB \in RawNums \X RawDens
    /\ ratA = None
    /\ ratB = None
    /\ ratRes = None
    /\ ratOps = <<>>
    /\ ParseIdle
    /\ SplitIdle
    /\ AccessIdle
    /\ TypeIdle

Construct ==
    /\ ratA = None
    /\ ratA' = RationalLiteral(inA[1], inA[2])
    /\ ratB' = RationalLiteral(inB[1], inB[2])
    /\ ratRes' = RationalLiteral(inA[1], inA[2])
    /\ UNCHANGED <<inA, inB, ratOps, parseVars, splitVars, accessVars, typeVars>>

\* an operation is applied while the chain is alive and within the bounds
CanApply ==
    /\ IsRational(ratRes)
    /\ IsRational(ratB)
    /\ Len(ratOps) < MaxOps
    /\ Abs(ratRes.numerator) <= MaxMag
    /\ ratRes.denominator <= MaxMag

Apply(name, result) ==
    /\ ratRes' = result
    /\ ratOps' = Append(ratOps, name)
    /\ UNCHANGED <<inA, inB, ratA, ratB, parseVars, splitVars, accessVars, typeVars>>

Add == CanApply /\ Apply("add", add(ratRes, ratB))

Subtract == CanApply /\ Apply("subtract", subtract(ratRes, ratB))

Multiply == CanApply /\ Apply("multiply", multiply(ratRes, ratB))

DivideBy == CanApply /\ Apply("divideBy", divideBy(ratRes, ratB))

Exp ==
    /\ CanApply
    /\ Abs(ratRes.numerator) <= MaxExpBase
    /\ ratRes.denominator <= MaxExpBase
    /\ Apply("exp", exp(ratRes, ratB))

Mod == CanApply /\ Apply("mod", mod(ratRes, ratB))

NextRat ==
    \/ Construct
    \/ Add
    \/ Subtract
    \/ Multiply
    \/ DivideBy
    \/ Exp
    \/ Mod

SpecRat == InitRat /\ [][NextRat]_vars

(***************************************************************************)
(* Literal parsing.  A text is a sequence of one-character strings.        *)
(***************************************************************************)
Digits == <<"0", "1", "2", "3", "4", "5", "6", "7", "8", "9">>
HexDigits == Digits \o <<"a", "b", "c", "d", "e", "f">>
Alphabet == {"0", "1", "2", "5", "a", "x", "e", ".", "_", "-"}

Range(s) == {s[i] : i \in 1..Len(s)}
IsDigit(c) == c \in Range(Digits)
IsHexDigit(c) == c \in Range(HexDigits)
DigitValue(c) == (CHOOSE i \in 1..Len(HexDigits) : HexDigits[i] = c) - 1

\* the value of a run of digits in the given base
RECURSIVE DigitsValue(_, _)
DigitsValue(s, base) ==
    IF s = <<>> THEN 0
    ELSE DigitsValue(SubSeq(s, 1, Len(s) - 1), base) * base + DigitValue(s[Len(s)])

\* value.split('').filter((c) => c !== '_').join('')
RECURSIVE filterSeparators(_)
filterSeparators(s) ==
    IF s = <<>> THEN <<>>
    ELSE IF Head(s) = "_" THEN filterSeparators(Tail(s))
    ELSE <<Head(s)>> \o filterSeparators(Tail(s))

startsWith(s, prefix) ==
    Len(s) >= Len(prefix) /\ SubSeq(s, 1, Len(prefix)) = prefix

includes(s, c) == c \in Range(s)

\* the first index of c in s, 0 when there is none
IndexOf(s, c) ==
    IF includes(s, c) THEN CHOOSE i \in 1..Len(s) : s[i] = c /\ \A j \in 1..(i - 1) : s[j] # c
    ELSE 0

\* s.split(c, 2): the pieces before the first and between the first and second c
split(s, c) ==
    LET i == IndexOf(s, c)
        rest == SubSeq(s, i + 1, Len(s))
        j == IndexOf(rest, c)
    IN  IF i = 0 THEN <<s>>
        ELSE <<SubSeq(s, 1, i - 1), IF j = 0 THEN rest ELSE SubSeq(rest, 1, j - 1)>>

\* s.replace(pattern, ''): with a string pattern, the first occurrence of the
\* pattern's text is removed
replace(s, pattern) ==
    LET hits == {i \in 1..(Len(s) - Len(pattern) + 1) :
                    SubSeq(s, i, i + Len(pattern) - 1) = pattern}
    IN  IF hits = {} THEN s
        ELSE LET i == CHOOSE h \in hits : \A g \in hits : h <= g
             IN  SubSeq(s, 1, i - 1) \o SubSeq(s, i + Len(pattern), Len(s))

\* BigInt(string): the empty text is 0n, then 0x and hex digits, or an optional
\* sign and decimal digits; anything else throws a SyntaxError
BigInt(s) ==
    LET SyntaxError == [ok |-> FALSE, value |-> 0]
        body == IF s # <<>> /\ Head(s) = "-" THEN Tail(s) ELSE s
        sign == IF s # <<>> /\ Head(s) = "-" THEN -1 ELSE 1
    IN  IF s = <<>> THEN [ok |-> TRUE, value |-> 0]
        ELSE IF startsWith(s, <<"0", "x">>)
        THEN IF Len(s) > 2 /\ \A i \in 3..Len(s) : IsHexDigit(s[i])
             THEN [ok |-> TRUE, value |-> DigitsValue(SubSeq(s, 3, Len(s)), 16)]
             ELSE SyntaxError
        ELSE IF body # <<>> /\ \A i \in 1..Len(body) : IsDigit(body[i])
        THEN [ok |-> TRUE, value |-> sign * DigitsValue(body, 10)]
        ELSE SyntaxError

intToLiteral(value) ==
    IF BigInt(value).ok THEN RationalLiteral(BigInt(value).value, 1)
    ELSE Throw("SyntaxError")

decimalToLiteral(value) ==
    LET parts == split(value, ".") IN
    IF Len(parts) < 2 THEN Throw("TypeError")
    ELSE LET intPart == replace(parts[1], <<"/", "^", "0", "+", "/">>)
             decimalPart == replace(parts[2], <<"/", "0", "+", "$">>)
         IN  IF intPart = <<>> /\ decimalPart = <<>> THEN RationalLiteral(0, 1)
             ELSE IF BigInt(intPart \o decimalPart).ok
             THEN RationalLiteral(BigInt(intPart \o decimalPart).value,
                                  BigIntPow(10, Len(decimalPart)))
             ELSE Throw("SyntaxError")

scientificNotationToLiteral(value) ==
    LET parts == split(value, "e")
        coefficient == IF includes(parts[1], ".") THEN decimalToLiteral(parts[1])
                       ELSE intToLiteral(parts[1])
    IN  IF ~IsRational(coefficient) THEN coefficient
        ELSE IF Len(parts) < 2 THEN Throw("TypeError")
        ELSE IF ~BigInt(parts[2]).ok THEN Throw("SyntaxError")
        ELSE multiply(coefficient,
                      exp(RationalLiteral(10, 1), RationalLiteral(BigInt(parts[2]).value, 1)))

stringToLiteralValue(value) ==
    LET tidiedValue == filterSeparators(value) IN
    IF startsWith(tidiedValue, <<"0", "x">>) THEN intToLiteral(value)
    ELSE IF includes(tidiedValue, "e") THEN scientificNotationToLiteral(value)
    ELSE IF includes(tidiedValue, ".") THEN decimalToLiteral(value)
    ELSE intToLiteral(value)

\* the decimal text of a bigint
RECURSIVE NatToString(_)
NatToString(n) ==
    IF n < 10 THEN <<Digits[n + 1]>>
    ELSE NatToString(n \div 10) \o <<Digits[(n % 10) + 1]>>

BigIntToString(n) == IF n < 0 THEN <<"-">> \o NatToString(-n) ELSE NatToString(n)

toString(this) ==
    BigIntToString(this.numerator) \o <<"/">> \o BigIntToString(this.denominator)

(***************************************************************************)
(* The parser as a state machine: a literal text is parsed, the value is   *)
(* printed and the printed text is parsed again.                           *)
(***************************************************************************)
Texts == UNION {[1..n -> Alphabet] : n \in 0..MaxLen}

\* the exponent of a scientific literal is kept small
ExponentInBounds(value) ==
    LET tidiedValue == filterSeparators(value)
        parts == split(value, "e")
    IN  (~startsWith(tidiedValue, <<"0", "x">>) /\ Len(parts) = 2 /\ BigInt(parts[2]).ok)
            => Abs(BigInt(parts[2]).value) <= MaxExponent

InitParse ==
    /\ lit \in {t \in Texts : ExponentInBounds(t)}
    /\ parsed = None
    /\ text = <<>>
    /\ reparsed = None
    /\ RatIdle
    /\ SplitIdle
    /\ AccessIdle
    /\ TypeIdle

Parse ==
    /\ parsed = None
    /\ parsed' = stringToLiteralValue(lit)
    /\ UNCHANGED <<lit, text, reparsed, ratVars, splitVars, accessVars, typeVars>>

ToString ==
    /\ IsRational(parsed)
    /\ text = <<>>
    /\ text' = toString(parsed)
    /\ UNCHANGED <<lit, parsed, reparsed, ratVars, splitVars, accessVars, typeVars>>

Reparse ==
    /\ text # <<>>
    /\ reparsed = None
    /\ reparsed' = stringToLiteralValue(text)
    /\ UNCHANGED <<lit, parsed, text, ratVars, splitVars, accessVars, typeVars>>

NextParse ==
    \/ Parse
    \/ ToString
    \/ Reparse

SpecParse == InitParse /\ [][NextParse]_vars

(***************************************************************************)
(* The declaration splitter as a state machine: the pass is run on the     *)
(* root of a tree.                                                         *)
(***************************************************************************)
InitSplit ==
    /\ \E w \in 1..MaxWeight, v \in 1..MaxWeight :
          /\ v <= w
          /\ \E first \in StatementsOfWeight(v), rest \in LowerShapes.lists[w - v] :
                /\ splitIn = Tree(RootShape(first, rest), 1)
                /\ splitNextId = 1 + Size(RootShape(first, rest))
    /\ splitAst = splitIn
    /\ lastUsedConstantId = 0
    /\ splitStatus = "ready"
    /\ RatIdle
    /\ ParseIdle
    /\ AccessIdle
    /\ TypeIdle

\* the pass visits the root; an error aborts the compilation and drops the tree
RunSplitter ==
    /\ splitStatus = "ready"
    /\ LET visited == dispatchVisit(splitAst, Context(splitNextId, lastUsedConstantId))
       IN  /\ splitAst' = IF visited.error = "" THEN visited.node ELSE NoTree
           /\ splitStatus' = IF visited.error = "" THEN "done" ELSE visited.error
           /\ splitNextId' = visited.ctx.nextId
           /\ lastUsedConstantId' = visited.ctx.lastUsedConstantId
    /\ UNCHANGED <<splitIn, ratVars, parseVars, accessVars, typeVars>>

NextSplit == RunSplitter

SpecSplit == InitSplit /\ [][NextSplit]_vars

(***************************************************************************)
(* The storage-access pass as a state machine: the pass is run on a tree,  *)
(* and run again on what the first run left.                               *)
(***************************************************************************)
StartWith(expression) ==
    /\ accessIn = Numbered(Root(expression), 1)
    /\ accessNextId = 2 + NodeCount(expression)

InitAccess ==
    /\ \/ \E n \in 1..(MaxNodes - 1) : \E expression \in LowerExpressions[n] :
             StartWith(expression)
       \/ \E base \in LowerExpressions[MaxNodes - 1] : \E top \in Unary(base) :
             StartWith(top)
       \/ \E k \in 1..(MaxNodes - 2) :
             \E left \in LowerExpressions[k], right \in LowerExpressions[MaxNodes - 1 - k] :
                 \E top \in Binary(left, right) : StartWith(top)
    /\ accessAst = accessIn
    /\ accessAstOnce = NoNode
    /\ utilFuncs = {}
    /\ utilFuncsOnce = {}
    /\ replacedNodes = 0
    /\ accessRuns = 0
    /\ accessError = ""
    /\ RatIdle
    /\ ParseIdle
    /\ SplitIdle
    /\ TypeIdle

\* the pass visits the root; an error aborts the compilation and drops the tree
RunAccess ==
    /\ accessRuns < 2
    /\ accessError = ""
    /\ LET visited == dispatchVisitAccess(accessAst, AccessContext(accessNextId, utilFuncs, 0))
           tree == IF visited.error = "" THEN visited.node ELSE NoNode
       IN  /\ accessAst' = tree
           /\ accessAstOnce' = IF accessRuns = 0 THEN tree ELSE accessAstOnce
           /\ accessNextId' = visited.ctx.nextId
           /\ utilFuncs' = visited.ctx.helpers
           /\ utilFuncsOnce' = IF accessRuns = 0 THEN visited.ctx.helpers ELSE utilFuncsOnce
           /\ replacedNodes' = visited.ctx.replaced
           /\ accessError' = visited.error
    /\ accessRuns' = accessRuns + 1
    /\ UNCHANGED <<accessIn, ratVars, parseVars, splitVars, typeVars>>

NextAccess == RunAccess

SpecAccess == InitAccess /\ [][NextAccess]_vars

(***************************************************************************)
(* The type translator as a state machine: a type node is translated.      *)
(***************************************************************************)
InitType ==
    /\ \E d \in 0..MaxTypeDepth :
          \/ d < MaxTypeDepth /\ typeIn \in TypesOfDepth(d)
          \/ d = MaxTypeDepth /\ \E t \in TypesOfDepth(d - 1) : typeIn \in TypesOver(t)
    /\ typeOut = NotTranslated
    /\ RatIdle
    /\ ParseIdle
    /\ SplitIdle
    /\ AccessIdle

CairoType ==
    /\ typeOut = NotTranslated
    /\ typeIn # NoType
    /\ typeOut' = cairoType(typeIn)
    /\ UNCHANGED <<typeIn, ratVars, parseVars, splitVars, accessVars>>

NextType == CairoType

SpecType == InitType /\ [][NextType]_vars

(***************************************************************************)
(* Claims about the rational engine (checked under SpecRat).               *)
(***************************************************************************)
Last(s) == s[Len(s)]

ConstructedAs(raw, r) ==
    /\ raw[2] > 0 => r = Outcome("rational", raw[1], raw[2])
    /\ raw[2] < 0 => r = Outcome("rational", -raw[1], -raw[2])
    /\ raw[2] = 0 => r = Throw("DivisionByZero")

\* C1: every RationalLiteral that exists has a strictly positive denominator:
\* the constructor negates both components of a negative denominator and
\* fails with DivisionByZero on a zero one, and every result of a chain of
\* add, subtract, multiply, divideBy, exp and mod either is that failure (as
\* for divideBy a rational of numerator 0), or is no rational at all (exp's
\* null for a non-integer exponent), or has denominator > 0.
C1_DenominatorPositive ==
    /\ \A r \in {ratA, ratB, ratRes} : IsRational(r) => r.denominator > 0
    /\ ratA # None => ConstructedAs(inA, ratA) /\ ConstructedAs(inB, ratB)
    /\ ratRes.kind \in {"none", "rational", "DivisionByZero", "null"}
    /\ ratRes.kind = "null" => Last(ratOps) = "exp" /\ toInteger(ratB).isNull
    /\ (ratOps # <<>> /\ Last(ratOps) = "divideBy" /\ ratB.numerator = 0)
           => ratRes = Throw("DivisionByZero")

C1_Witness ==
    /\ Len(ratOps) = 2
    /\ ratOps[2] = "divideBy"
    /\ inA[2] < 0
    /\ ratB.numerator < 0
    /\ IsRational(ratRes)
    /\ ratRes.denominator > 1

\* C2: for non-zero a and b of any signs, a.multiply(b).divideBy(b) does not
\* fail and is equal in value to a.
C2_MultiplyDivideRoundTrip ==
    (ratOps = <<"multiply", "divideBy">> /\ ratA.numerator # 0 /\ ratB.numerator # 0)
        => IsRational(ratRes) /\ equalValueOf(ratRes, ratA)

C2_Witness ==
    /\ ratOps = <<"multiply", "divideBy">>
    /\ ratA.numerator < 0
    /\ ratB.numerator < 0
    /\ ratB.denominator > 1
    /\ IsRational(ratRes)

CrossSum(a, b) ==
    Outcome("rational", a.numerator * b.denominator + b.numerator * a.denominator,
            a.denominator * b.denominator)

CrossDifference(a, b) ==
    Outcome("rational", a.numerator * b.denominator - b.numerator * a.denominator,
            a.denominator * b.denominator)

\* C3: a.add(b) is equal in value to (n1*d2 + n2*d1)/(d1*d2) in every branch
\* of add, a.subtract(b) is a.add of b with its numerator negated (the
\* cross-multiplied difference), and a.add(neg(a)) is equal in value to 0/1.
C3_AddIsCrossSum ==
    /\ ratOps = <<"add">> =>
          /\ IsRational(ratRes)
          /\ equalValueOf(ratRes, CrossSum(ratA, ratB))
          /\ (ratB.denominator = ratA.denominator /\ ratB.numerator = -ratA.numerator)
                => equalValueOf(ratRes, Outcome("rational", 0, 1))
    /\ ratOps = <<"subtract">> =>
          /\ IsRational(ratRes)
          /\ equalValueOf(ratRes, CrossDifference(ratA, ratB))
          /\ ratRes = add(ratA, Outcome("rational", -ratB.numerator, ratB.denominator))

C3_Witness ==
    /\ ratOps = <<"add">>
    /\ ratA.denominator = 3
    /\ ratB.denominator = 1
    /\ ratA.numerator < 0
    /\ ratB.numerator > 0
    /\ IsRational(ratRes)

\* C6: base.exp(k) with a base of numerator 0 and an integer exponent k < 0
\* fails with DivisionByZero and returns no rational value.
C6_ZeroBaseNegativeExponentFails ==
    (/\ ratOps = <<"exp">>
     /\ ratA.numerator = 0
     /\ ~toInteger(ratB).isNull
     /\ toInteger(ratB).value < 0)
        => ratRes = Throw("DivisionByZero")

(***************************************************************************)
(* Claims about the literal parser (checked under SpecParse).              *)
(***************************************************************************)
AllDigits(t) == \A i \in 1..Len(t) : IsDigit(t[i])

IsIntegerForm(t) == t # <<>> /\ AllDigits(t)

IsHexForm(t) ==
    startsWith(t, <<"0", "x">>) /\ Len(t) > 2 /\ \A i \in 3..Len(t) : IsHexDigit(t[i])

IsDecimalForm(t) ==
    /\ includes(t, ".")
    /\ Cardinality({i \in 1..Len(t) : t[i] = "."}) = 1
    /\ AllDigits(split(t, ".")[1])
    /\ AllDigits(split(t, ".")[2])

IsScientificForm(t) ==
    /\ Cardinality({i \in 1..Len(t) : t[i] = "e"}) = 1
    /\ LET c == split(t, "e")[1]
           k == split(t, "e")[2]
       IN  /\ IsIntegerForm(c) \/ IsDecimalForm(c)
           /\ IsIntegerForm(k) \/ (k # <<>> /\ Head(k) = "-" /\ IsIntegerForm(Tail(k)))

WellFormed(t) ==
    IsIntegerForm(t) \/ IsHexForm(t) \/ IsDecimalForm(t) \/ IsScientificForm(t)

\* the exact value of a decimal form: intPart.decimalPart
DecimalValue(t) ==
    LET i == split(t, ".")[1]
        d == split(t, ".")[2]
    IN  Outcome("rational",
                DigitsValue(i, 10) * BigIntPow(10, Len(d)) + DigitsValue(d, 10),
                BigIntPow(10, Len(d)))

\* the exact value of a well-formed literal: coefficient * 10^exponent and so on
ExactValue(t) ==
    IF IsHexForm(t) THEN Outcome("rational", DigitsValue(SubSeq(t, 3, Len(t)), 16), 1)
    ELSE IF IsScientificForm(t)
    THEN LET c == split(t, "e")[1]
             k == split(t, "e")[2]
             cv == IF IsDecimalForm(c) THEN DecimalValue(c)
                   ELSE Outcome("rational", DigitsValue(c, 10), 1)
         IN  IF Head(k) = "-"
             THEN Outcome("rational", cv.numerator,
                          cv.denominator * BigIntPow(10, DigitsValue(Tail(k), 10)))
             ELSE Outcome("rational", cv.numerator * BigIntPow(10, DigitsValue(k, 10)),
                          cv.denominator)
    ELSE IF IsDecimalForm(t) THEN DecimalValue(t)
    ELSE Outcome("rational", DigitsValue(t, 10), 1)

\* every '_' of the text stands between two digits
SeparatorsBetweenDigits(s) ==
    \A i \in 1..Len(s) : s[i] = "_" =>
        i > 1 /\ i < Len(s) /\ IsHexDigit(s[i - 1]) /\ IsHexDigit(s[i + 1])

\* C4: for every literal that stringToLiteralValue parses, parsing the text
\* that toString() gives of the result succeeds and yields an equal value.
C4_ToStringRoundTrips ==
    reparsed # None => IsRational(reparsed) /\ equalValueOf(reparsed, parsed)

\* C5: stringToLiteralValue returns the exact value of the literal after the
\* digit separators '_' are stripped, in each form (0x hex, scientific,
\* decimal, integer); "1_000" is 1000/1, "0x2a" is 42/1 and "1.5e2" has
\* toInteger() 150.
C5_ParsesExactValue ==
    parsed # None =>
        /\ (SeparatorsBetweenDigits(lit) /\ WellFormed(filterSeparators(lit)))
              => IsRational(parsed)
                 /\ equalValueOf(parsed, ExactValue(filterSeparators(lit)))
        /\ lit = <<"1", "_", "0", "0", "0">> => parsed = Outcome("rational", 1000, 1)
        /\ lit = <<"0", "x", "2", "a">> => parsed = Outcome("rational", 42, 1)
        /\ lit = <<"1", ".", "5", "e", "2">>
              => IsRational(parsed) /\ toInteger(parsed) = [isNull |-> FALSE, value |-> 150]

(***************************************************************************)
(* Claims about the declaration splitter (checked under SpecSplit).        *)
(***************************************************************************)
RECURSIVE Nodes(_)
Nodes(node) == {node} \cup UNION {Nodes(node.children[i]) : i \in 1..Len(node.children)}

Blocks(tree) == {n \in Nodes(tree) : n.kind \in {"Block", "UncheckedBlock"}}

NodeById(tree, id) == CHOOSE n \in Nodes(tree) : n.id = id

MultiDeclaration(s) ==
    s.kind = "VariableDeclarationStatement" /\ Len(s.vDeclarations) > 1

TupleCallInitialised(s) ==
    /\ s.vInitialValue.kind = "FunctionCall"
    /\ getNodeType(s.vInitialValue).kind = "TupleType"

\* C7: once the splitter has visited a tree, a declaration statement that is a
\* direct child of a Block or UncheckedBlock has more than one declaration
\* only if its initialiser is a function call returning a tuple.
C7_NoMultiDeclarationLeft ==
    splitStatus = "done" =>
        \A b \in Blocks(splitAst) : \A i \in 1..Len(b.children) :
            MultiDeclaration(b.children[i]) => TupleCallInitialised(b.children[i])

\* the slots of s whose declared type differs from the type the call returns
ReplacedSlots(s) ==
    SelectIndices(Len(s.assignments),
                  LAMBDA i : /\ s.assignments[i] # 0
                             /\ find(s.vDeclarations, s.assignments[i])[1].typeString
                                    # getNodeType(s.vInitialValue).elements[i])

TemporaryDeclarations(tree) ==
    {d \in UNION {{n.vDeclarations[i] : i \in 1..Len(n.vDeclarations)} : n \in Nodes(tree)} :
        d.name[1] = "__warp_td_"}

\* what the splitter made of the statement s of a block, given the children
\* the block has afterwards
SplitAroundCall(s, children) ==
    LET p == IndexOfNode(children, s.id)
        original == children[p]
        replaced == ReplacedSlots(s)
        returnType == getNodeType(s.vInitialValue)
        temporary(j) == find(original.vDeclarations, original.assignments[replaced[j]])
        assigned == {original.assignments[i] : i \in 1..Len(original.assignments)} \ {0}
    IN  /\ original.kind = "VariableDeclarationStatement"
        /\ original.vInitialValue = s.vInitialValue
        /\ Cardinality({n \in Nodes(splitAst) :
                            \/ n.vInitialValue.id = s.vInitialValue.id
                            \/ n.vExpression.id = s.vInitialValue.id}) = 1
        /\ Len(original.assignments) = Len(s.assignments)
        /\ \A i \in 1..Len(s.assignments) :
              (\A j \in 1..Len(replaced) : replaced[j] # i)
                  => original.assignments[i] = s.assignments[i]
        /\ \A j \in 1..Len(replaced) :
              /\ Len(temporary(j)) = 1
              /\ temporary(j)[1].name[1] = "__warp_td_"
              /\ temporary(j)[1].typeString = returnType.elements[replaced[j]]
              /\ \A n \in Nodes(splitIn) : \A i \in 1..Len(n.vDeclarations) :
                    n.vDeclarations[i].id # temporary(j)[1].id
              /\ j > 1 => temporary(j)[1].name[2] = temporary(j - 1)[1].name[2] + 1
              /\ p + j <= Len(children)
              /\ LET follow == children[p + j]
                 IN  /\ follow.kind = "VariableDeclarationStatement"
                     /\ follow.assignments = <<s.assignments[replaced[j]]>>
                     /\ follow.vDeclarations = find(s.vDeclarations, s.assignments[replaced[j]])
                     /\ follow.vInitialValue.kind = "Identifier"
                     /\ follow.vInitialValue.referencedDeclaration = temporary(j)[1].id
                     /\ follow.vInitialValue.name = temporary(j)[1].name
        /\ {original.vDeclarations[i].id : i \in 1..Len(original.vDeclarations)} = assigned
        /\ Len(original.vDeclarations) = Cardinality(assigned)

\* C8: a multi-declaration statement of a block that is initialised by a call
\* returning a tuple keeps the call, in that one statement only; every slot
\* whose declared type differs from the return type is replaced by a fresh
\* temporary __warp_td_<n> of the return type, n counting up from 0 in slot
\* order with no number used twice in the pass; one single-declaration
\* statement per replaced slot follows, binding the original declaration to an
\* Identifier referencing the temporary; and the statement's declarations are
\* exactly those named by its non-null assignment ids.
C8_TupleCallSplit ==
    splitStatus = "done" =>
        /\ \A b \in Blocks(splitIn) : \A i \in 1..Len(b.children) :
              (MultiDeclaration(b.children[i]) /\ TupleCallInitialised(b.children[i]))
                  => SplitAroundCall(b.children[i], NodeById(splitAst, b.id).children)
        /\ Cardinality(TemporaryDeclarations(splitAst)) = lastUsedConstantId
        /\ {d.name[2] : d \in TemporaryDeclarations(splitAst)} = 0..(lastUsedConstantId - 1)

C8_Witness ==
    /\ splitStatus = "done"
    /\ \E b \in Blocks(splitIn) : \E i \in 1..Len(b.children) :
          /\ MultiDeclaration(b.children[i])
          /\ TupleCallInitialised(b.children[i])
          /\ Len(ReplacedSlots(b.children[i])) >= 2
          /\ Len(ReplacedSlots(b.children[i])) < Len(b.children[i].assignments)
    /\ lastUsedConstantId >= 2

\* the declaration statements the pass hands to splitDeclaration
SplitStatements(tree) ==
    UNION {{b.children[i] : i \in 1..Len(b.children)} : b \in Blocks(tree)}

OtherInitialiser(s) ==
    /\ MultiDeclaration(s)
    /\ s.vInitialValue.kind \notin {"undefined", "TupleExpression"}
    /\ ~TupleCallInitialised(s)

\* C12: splitDeclaration, applied to a statement with more than one
\* declaration whose initialiser is neither a tuple-returning function call
\* nor a TupleExpression (a function call that returns no tuple included),
\* fails with TranspileFailed and returns no statements.
C12_OtherInitialiserFails ==
    splitStatus # "ready" =>
        \A s \in SplitStatements(splitIn) :
            OtherInitialiser(s) =>
                LET emitted == splitDeclaration(s, Context(splitNextId, lastUsedConstantId))
                IN  emitted.error = "TranspileFailedError" /\ emitted.statements = <<>>

TupleInitialised(s) ==
    MultiDeclaration(s) /\ s.vInitialValue.kind = "TupleExpression"

\* the statements splitDeclaration emits for s
Emitted(s) == splitDeclaration(s, Context(splitNextId, lastUsedConstantId)).statements

\* the first emitted statement, and no other, carries the annotations of s
AnnotationsOnFirst(s, emitted) ==
    /\ emitted # <<>> =>
          /\ emitted[1].documentation = s.documentation
          /\ emitted[1].raw = s.raw
    /\ \A j \in 2..Len(emitted) :
          /\ emitted[j].documentation = "undefined"
          /\ emitted[j].raw = "undefined"

\* the children of a block that carry a raw annotation
Annotated(children) == {i \in 1..Len(children) : children[i].raw # "undefined"}

\* C13: when a multi-declaration statement initialised by a TupleExpression
\* is split, its documentation and raw annotations are on the first statement
\* emitted for it and on no other, whichever slot that statement comes from
\* (also when slot 0 has neither declaration nor component); so a block has
\* as many annotated statements after the pass as before.
C13_AnnotationsOnFirstEmitted ==
    splitStatus = "done" =>
        /\ \A s \in SplitStatements(splitIn) :
              TupleInitialised(s) => AnnotationsOnFirst(s, Emitted(s))
        /\ \A b \in Blocks(splitIn) :
              Cardinality(Annotated(NodeById(splitAst, b.id).children))
                  = Cardinality(Annotated(b.children))

\* what a statement of the output block is, in terms of the input: a
\* statement of the input block, kept under its id; a follow-up declaration
\* bound to a temporary; a single declaration with its initialiser; or an
\* expression statement
Describe(statement, inputIds) ==
    IF statement.id \in inputIds THEN <<"kept", statement.id, 0>>
    ELSE IF statement.kind = "ExpressionStatement"
    THEN <<"expression", 0, statement.vExpression.id>>
    ELSE IF statement.kind # "VariableDeclarationStatement" \/ Len(statement.vDeclarations) # 1
                \/ statement.assignments # <<statement.vDeclarations[1].id>>
    THEN <<"other", statement.id, 0>>
    ELSE IF statement.vInitialValue.kind = "Identifier"
    THEN <<"follow-up", statement.assignments[1], 0>>
    ELSE <<"declaration", statement.assignments[1], statement.vInitialValue.id>>

\* what the statements emitted for the slots of a tuple-initialised statement
\* are to be, from slot index on
RECURSIVE SlotRun(_, _)
SlotRun(s, index) ==
    IF index > Len(s.assignments) THEN <<>>
    ELSE LET component == s.vInitialValue.vOriginalComponents[index]
         IN  (IF s.assignments[index] # 0
              THEN <<<<"declaration", s.assignments[index], component.id>>>>
              ELSE IF component.kind # "null"
              THEN <<<<"expression", 0, component.id>>>>
              ELSE <<>>)
             \o SlotRun(s, index + 1)

\* what the children of a block are to be after the pass, from index on
RECURSIVE BlockRun(_, _)
BlockRun(children, index) ==
    IF index > Len(children) THEN <<>>
    ELSE LET s == children[index]
         IN  (IF TupleInitialised(s) THEN SlotRun(s, 1)
              ELSE IF MultiDeclaration(s) /\ TupleCallInitialised(s)
              THEN <<<<"kept", s.id, 0>>>>
                   \o [j \in 1..Len(ReplacedSlots(s)) |->
                          <<"follow-up", s.assignments[ReplacedSlots(s)[j]], 0>>]
              ELSE <<<<"kept", s.id, 0>>>>)
             \o BlockRun(children, index + 1)

Components(s) ==
    {s.vInitialValue.vOriginalComponents[i] : i \in 1..Len(s.vInitialValue.vOriginalComponents)}
        \ {NullExpression}

\* C14: in the statement list of a block the statements emitted for a
\* tuple-initialised declaration statement stand where it stood, one after
\* the other in slot order: a single declaration with the slot's component
\* for a slot with a declaration, an ExpressionStatement of the component for
\* a slot with a component only, nothing for a slot with neither; every
\* component is in exactly one statement of the tree, as it was; and the
\* other statements of the block keep their order, however many statements
\* of the block are split.
C14_SplitInPlaceInOrder ==
    splitStatus = "done" =>
        \A b \in Blocks(splitIn) :
            LET after == NodeById(splitAst, b.id).children
                inputIds == {b.children[i].id : i \in 1..Len(b.children)}
            IN  /\ [i \in 1..Len(after) |-> Describe(after[i], inputIds)]
                      = BlockRun(b.children, 1)
                /\ \A i \in 1..Len(b.children) :
                      TupleInitialised(b.children[i]) =>
                          \A component \in Components(b.children[i]) :
                              Cardinality({j \in 1..Len(after) :
                                              \/ after[j].vInitialValue = component
                                              \/ after[j].vExpression = component}) = 1

C14_Witness ==
    /\ splitStatus = "done"
    /\ \E b \in Blocks(splitIn) :
          /\ Cardinality({i \in 1..Len(b.children) : TupleInitialised(b.children[i])}) >= 2
          /\ Len(NodeById(splitAst, b.id).children) >= 4

(***************************************************************************)
(* Claims about the storage-access pass (checked under SpecAccess).        *)
(***************************************************************************)
StateVariableIdentifier(n) ==
    n.kind = "Identifier" /\ IsStateVariable(n.referencedDeclaration)

MappingIndexAccess(n) ==
    n.kind = "IndexAccess" /\ n.children[1].typeString = "mapping pointer"

StateVariableWrite(n) == n.kind = "Assignment" /\ StateVariableIdentifier(n.children[1])

MappingWrite(n) == n.kind = "Assignment" /\ MappingIndexAccess(n.children[1])

MappingIdentifier(n) ==
    StateVariableIdentifier(n) /\ declarations[n.referencedDeclaration].vType = "Mapping"

HelperCallOf(operation, n) == n.kind = "FunctionCall" /\ n.name = operation

Count(tree, Is(_)) == Cardinality({n \in Nodes(tree) : Is(n)})

\* the reads of the tree: state-variable identifiers and mapping index
\* accesses that are not the left-hand side of an assignment
StateVariableReads(tree) ==
    Count(tree, LAMBDA n : StateVariableIdentifier(n) /\ ~MappingIdentifier(n))
        - Count(tree, StateVariableWrite)

MappingReads(tree) == Count(tree, MappingIndexAccess) - Count(tree, MappingWrite)

\* C9: after the pass has completed without error, no Identifier referencing
\* a state variable and no IndexAccess over a pointer-to-mapping remains in
\* the tree; the tree holds one storageWrite call per assignment to a
\* state-variable identifier, one writeMapping call per assignment to a
\* mapping index, one readMapping call per other mapping index access, one
\* storageRead call per other state-variable identifier, and one more literal
\* per slot and per mapping-typed identifier (the clone of its initialiser).
C9_NoStorageAccessLeft ==
    (accessRuns >= 1 /\ accessError = "") =>
        /\ \A n \in Nodes(accessAst) : ~StateVariableIdentifier(n) /\ ~MappingIndexAccess(n)
        /\ Count(accessAst, LAMBDA n : HelperCallOf("storageWrite", n))
              = Count(accessIn, StateVariableWrite)
        /\ Count(accessAst, LAMBDA n : HelperCallOf("writeMapping", n))
              = Count(accessIn, MappingWrite)
        /\ Count(accessAst, LAMBDA n : HelperCallOf("readMapping", n)) = MappingReads(accessIn)
        /\ Count(accessAst, LAMBDA n : HelperCallOf("storageRead", n))
              = StateVariableReads(accessIn)
        /\ Count(accessAst, LAMBDA n : n.kind = "Literal")
              = Count(accessIn, LAMBDA n : n.kind = "Literal")
                + Count(accessIn, StateVariableIdentifier)
        /\ Count(accessAst, LAMBDA n : n.kind \in {"Assignment", "IndexAccess"})
              = Count(accessIn, LAMBDA n : n.kind = "Assignment")
                - Count(accessIn, StateVariableWrite) - Count(accessIn, MappingWrite)

C9_Witness ==
    /\ accessRuns = 1
    /\ accessError = ""
    /\ Count(accessIn, MappingWrite) > 0
    /\ MappingReads(accessIn) > 0
    /\ StateVariableReads(accessIn) > 0
    /\ Count(accessIn, MappingIdentifier) > 1

\* C10: a second run of the pass on the tree a first successful run left
\* raises no error, replaces no node, registers no helper and leaves the tree
\* as it found it.
C10_SecondRunChangesNothing ==
    accessRuns = 2 =>
        /\ accessError = ""
        /\ replacedNodes = 0
        /\ utilFuncs = utilFuncsOnce
        /\ accessAst = accessAstOnce

C10_Witness ==
    /\ accessRuns = 2
    /\ accessError = ""
    /\ accessAstOnce # accessIn
    /\ Cardinality(utilFuncsOnce) >= 2
    /\ Count(accessIn, StateVariableWrite) > 0
    /\ MappingReads(accessIn) > 0

(***************************************************************************)
(* Claims about the type translator (checked under SpecType).              *)
(***************************************************************************)
\* the translation table, row by row; a variant with no row has no string
RECURSIVE TableEntry(_)
TableEntry(tp) ==
    CASE tp.kind = "IntType" /\ tp.nBits <= 251 -> Returned(<<"felt">>)
      [] tp.kind = "IntType" /\ tp.nBits > 251 -> Returned(<<"Uint256">>)
      [] tp.kind \in {"BoolType", "AddressType", "StringType"} -> Returned(<<"felt">>)
      [] tp.kind \in {"BytesType", "FunctionType"} -> Returned(<<"felt", "*">>)
      [] tp.kind = "ArrayType" ->
            IF TableEntry(tp.parts[1]).kind = "Error" THEN Thrown
            ELSE Returned(TableEntry(tp.parts[1]).value \o <<"*">>)
      [] tp.kind = "PointerType" -> TableEntry(tp.parts[1])
      [] tp.kind = "MappingType" ->
            IF TableEntry(tp.parts[2]).kind = "Error" THEN Thrown
            ELSE Returned(KeyText(tp.parts[1]) \o <<" => ">> \o TableEntry(tp.parts[2]).value)
      [] tp.kind \in {"BuiltinType", "BuiltinStructType", "UserDefinedType"} ->
            Returned(canonicalMangler(tp.name))
      [] OTHER -> Thrown

RECURSIVE PointersErased(_)
PointersErased(tp) ==
    IF tp.kind = "PointerType" THEN PointersErased(tp.parts[1])
    ELSE [tp EXCEPT !.parts = [i \in 1..Len(tp.parts) |-> PointersErased(tp.parts[i])]]

RECURSIVE HasVariant(_, _)
HasVariant(tp, kinds) ==
    tp.kind \in kinds \/ \E i \in 1..Len(tp.parts) : HasVariant(tp.parts[i], kinds)

\* C11: cairoType gives what the translation table gives on every type node:
\* felt for an Int of at most 251 bits and Uint256 above, felt for Bool,
\* Address and String, felt* for Bytes and Function, the element's string
\* followed by * for an Array, the pointee's string for a Pointer at any
\* depth, and an error, no string, for a variant the table does not have.
C11_CairoTypeFollowsTable ==
    typeOut # NotTranslated =>
        /\ typeOut = TableEntry(typeIn)
        /\ typeOut = cairoType(PointersErased(typeIn))
        /\ HasVariant(typeIn, {"TupleType", "FixedBytesType"}) <=> typeOut = Thrown

C11_Witness ==
    /\ typeIn.kind = "PointerType"
    /\ typeIn.parts[1].kind = "PointerType"
    /\ typeIn.parts[1].parts[1].kind = "ArrayType"
    /\ typeIn.parts[1].parts[1].parts[1].kind = "IntType"
    /\ typeIn.parts[1].parts[1].parts[1].nBits = 256
    /\ typeOut = Returned(<<"Uint256", "*">>)

====
